---- MODULE Spec2Model ----
(***************************************************************************)
(* Model of the ABI type codec of algonaut_abi:                            *)
(*   abi_type.rs      AbiType, AbiType::string, AbiType::from_str, the     *)
(*                    make_* constructors and parse_tuple_content          *)
(*   interactions.rs  AbiArg, AbiReturn, AbiMethod::from_signature,        *)
(*                    get_signature, parse_method_args                     *)
(* A Rust string is its sequence of UTF-8 bytes: an ASCII character is one  *)
(* byte, written as a one-character string; the two-byte character U+00E9  *)
(* is the lead byte "C3" followed by the continuation byte "A9". Indices   *)
(* are 0-based byte offsets, as in the source, unless a definition says    *)
(* it counts characters.                                                   *)
(* A Result is a record [kind, val]: kind "Ok" carries the value, "Err"    *)
(* carries the AbiError message tag, and "Panic" is a call that unwinds    *)
(* (Option::unwrap on None, an index out of bounds).                       *)
(***************************************************************************)
EXTENDS Integers, Sequences, FiniteSets, TLC

VARIABLES pc, text, ty, str, reparsed, segs, method, sig,
          elems, resolved, asked, tx_count, selector

vars == <<pc, text, ty, str, reparsed, segs, method, sig,
          elems, resolved, asked, tx_count, selector>>

----------------------------------------------------------------------------
(* Results and options *)

Ok(v) == [kind |-> "Ok", val |-> v]

Err(m) == [kind |-> "Err", val |-> m]

Panic(m) == [kind |-> "Panic", val |-> m]

None == <<>>

Some(v) == <<v>>

NoCall == [kind |-> "NoCall", val |-> "none"]

----------------------------------------------------------------------------
(* String primitives of std::str, on character sequences *)

Digits == {"0", "1", "2", "3", "4", "5", "6", "7", "8", "9"}

DigitVal(c) ==
  CASE c = "0" -> 0 [] c = "1" -> 1 [] c = "2" -> 2 [] c = "3" -> 3
    [] c = "4" -> 4 [] c = "5" -> 5 [] c = "6" -> 6 [] c = "7" -> 7
    [] c = "8" -> 8 [] c = "9" -> 9

DigitChar(d) ==
  CASE d = 0 -> "0" [] d = 1 -> "1" [] d = 2 -> "2" [] d = 3 -> "3"
    [] d = 4 -> "4" [] d = 5 -> "5" [] d = 6 -> "6" [] d = 7 -> "7"
    [] d = 8 -> "8" [] d = 9 -> "9"

AllDigits(s) == \A i \in 1..Len(s) : s[i] \in Digits

starts_with(s, p) == Len(s) >= Len(p) /\ SubSeq(s, 1, Len(p)) = p

ends_with(s, p) == Len(s) >= Len(p) /\ SubSeq(s, Len(s) - Len(p) + 1, Len(s)) = p

contains(s, p) == \E i \in 1..(Len(s) - Len(p) + 1) : SubSeq(s, i, i + Len(p) - 1) = p

strip_prefix(s, p) == SubSeq(s, Len(p) + 1, Len(s))

strip_suffix(s, p) == SubSeq(s, 1, Len(s) - Len(p))

\* str::chars(): the characters of the text, one entry per character
RECURSIVE CharsFrom(_, _)
CharsFrom(s, i) ==
  IF i > Len(s) THEN <<>>
  ELSE IF s[i] = "C3" THEN <<"U+00E9">> \o CharsFrom(s, i + 2)
  ELSE <<s[i]>> \o CharsFrom(s, i + 1)

chars(s) == CharsFrom(s, 1)

\* str::is_char_boundary(index)
is_char_boundary(s, index) ==
  \/ index = 0
  \/ index = Len(s)
  \/ index > 0 /\ index < Len(s) /\ s[index + 1] # "A9"

\* &s[from..to]: panics when an end is out of range or inside a character
slice(s, from, to) ==
  IF from <= to /\ to <= Len(s) /\ is_char_boundary(s, from) /\ is_char_boundary(s, to)
  THEN Ok(SubSeq(s, from + 1, to))
  ELSE Panic("byte index is out of bounds or not a char boundary")

\* Iterator::position over a character sequence: the 0-based count of the
\* characters before the first c, or -1 for None
RECURSIVE PositionFrom(_, _, _)
PositionFrom(cs, c, i) ==
  IF i > Len(cs) THEN -1
  ELSE IF cs[i] = c THEN i - 1
  ELSE PositionFrom(cs, c, i + 1)

position(cs, c) == PositionFrom(cs, c, 1)

\* str::split(','): the pieces between the commas, empty pieces included
RECURSIVE SplitFrom(_, _, _)
SplitFrom(s, i, cur) ==
  IF i > Len(s) THEN <<cur>>
  ELSE IF s[i] = "," THEN <<cur>> \o SplitFrom(s, i + 1, <<>>)
  ELSE SplitFrom(s, i + 1, Append(cur, s[i]))

split(s) == SplitFrom(s, 1, <<>>)

\* [String]::join(",")
RECURSIVE join(_)
join(ss) ==
  IF Len(ss) = 0 THEN <<>>
  ELSE IF Len(ss) = 1 THEN ss[1]
  ELSE ss[1] \o <<",">> \o join(Tail(ss))

----------------------------------------------------------------------------
(* Integer parsing and formatting (core::num FromStr, Display) *)

\* Values are only ever compared with thresholds below Sat, so the numeric
\* value of a digit string is kept saturated at Sat.
Sat == 100000

RECURSIVE NumValFrom(_, _, _)
NumValFrom(s, i, acc) ==
  IF i > Len(s) THEN acc
  ELSE LET n == acc * 10 + DigitVal(s[i])
       IN NumValFrom(s, i + 1, IF n > Sat THEN Sat ELSE n)

NumVal(s) == NumValFrom(s, 1, 0)

RECURSIVE StripZeros(_)
StripZeros(s) ==
  IF Len(s) > 1 /\ s[1] = "0" THEN StripZeros(Tail(s)) ELSE s

\* lexicographic a > b for digit strings of equal length
RECURSIVE LexGreater(_, _)
LexGreater(a, b) ==
  IF Len(a) = 0 THEN FALSE
  ELSE IF DigitVal(a[1]) # DigitVal(b[1]) THEN DigitVal(a[1]) > DigitVal(b[1])
  ELSE LexGreater(Tail(a), Tail(b))

\* the digit string d exceeds the decimal bound given as digit string
Exceeds(d, bound) ==
  LET z == StripZeros(d)
  IN Len(z) > Len(bound) \/ (Len(z) = Len(bound) /\ LexGreater(z, bound))

I32_MAX_S == <<"2", "1", "4", "7", "4", "8", "3", "6", "4", "7">>

I32_MIN_ABS_S == <<"2", "1", "4", "7", "4", "8", "3", "6", "4", "8">>

U32_MAX_S == <<"4", "2", "9", "4", "9", "6", "7", "2", "9", "5">>

USIZE_MAX_S ==
  <<"1", "8", "4", "4", "6", "7", "4", "4", "0", "7",
    "3", "7", "0", "9", "5", "5", "1", "6", "1", "5">>

\* <i32 as FromStr>::from_str: optional sign, then at least one digit
parse_i32(s) ==
  IF Len(s) = 0 THEN Err("Empty")
  ELSE IF s[1] \in {"+", "-"} /\ Len(s) = 1 THEN Err("InvalidDigit")
  ELSE LET neg == s[1] = "-"
           d == IF s[1] \in {"+", "-"} THEN Tail(s) ELSE s
       IN IF ~AllDigits(d) THEN Err("InvalidDigit")
          ELSE IF ~neg /\ Exceeds(d, I32_MAX_S) THEN Err("PosOverflow")
          ELSE IF neg /\ Exceeds(d, I32_MIN_ABS_S) THEN Err("NegOverflow")
          ELSE Ok(IF neg THEN 0 - NumVal(d) ELSE NumVal(d))

\* unsigned FromStr (u32, usize): an optional '+', no '-', at least one digit
parse_unsigned(s, max_s) ==
  IF Len(s) = 0 THEN Err("Empty")
  ELSE IF s[1] \in {"+", "-"} /\ Len(s) = 1 THEN Err("InvalidDigit")
  ELSE LET d == IF s[1] = "+" THEN Tail(s) ELSE s
       IN IF ~AllDigits(d) THEN Err("InvalidDigit")
          ELSE IF Exceeds(d, max_s) THEN Err("PosOverflow")
          ELSE Ok(NumVal(d))

parse_u32(s) == parse_unsigned(s, U32_MAX_S)

parse_usize(s) == parse_unsigned(s, USIZE_MAX_S)

\* Display for an unsigned integer: decimal, no leading zeros
RECURSIVE fmt_num(_)
fmt_num(n) ==
  IF n < 10 THEN <<DigitChar(n)>>
  ELSE Append(fmt_num(n \div 10), DigitChar(n % 10))

----------------------------------------------------------------------------
(* String literals of the source *)

S_uint == <<"u", "i", "n", "t">>

S_byte == <<"b", "y", "t", "e">>

S_ufixed == <<"u", "f", "i", "x", "e", "d">>

S_bool == <<"b", "o", "o", "l">>

S_address == <<"a", "d", "d", "r", "e", "s", "s">>

S_string == <<"s", "t", "r", "i", "n", "g">>

S_void == <<"v", "o", "i", "d">>

S_Any == <<"A", "n", "y">>

S_Payment == <<"P", "a", "y", "m", "e", "n", "t">>

S_KeyRegistration ==
  <<"K", "e", "y", "R", "e", "g", "i",
    "s", "t", "r", "a", "t", "i", "o", "n">>

S_AssetConfig == <<"A", "s", "s", "e", "t", "C", "o", "n", "f", "i", "g">>

S_AssetTransfer ==
  <<"A", "s", "s", "e", "t", "T",
    "r", "a", "n", "s", "f", "e", "r">>

S_AssetFreeze == <<"A", "s", "s", "e", "t", "F", "r", "e", "e", "z", "e">>

S_AppCall == <<"A", "p", "p", "C", "a", "l", "l">>

S_AccountReferenceType ==
  <<"A", "c", "c", "o", "u", "n", "t", "R", "e", "f",
    "e", "r", "e", "n", "c", "e", "T", "y", "p", "e">>

S_AssetReferenceType ==
  <<"A", "s", "s", "e", "t", "R", "e", "f", "e",
    "r", "e", "n", "c", "e", "T", "y", "p", "e">>

S_ApplicationReferenceType ==
  <<"A", "p", "p", "l", "i", "c", "a", "t", "i", "o", "n", "R",
    "e", "f", "e", "r", "e", "n", "c", "e", "T", "y", "p", "e">>

----------------------------------------------------------------------------
(* abi_type.rs: the type model *)

UINT == 0

BYTE == 1

UFIXED == 2

BOOL == 3

ARRAY_STATIC == 4

ADDRESS == 5

ARRAY_DYNAMIC == 6

STRING_ID == 7

TUPLE == 8

U16_MAX == 65535

AbiType(id, children, bits, prec, slen) ==
  [abi_type_id |-> id, child_types |-> children, bit_size |-> bits,
   precision |-> prec, static_length |-> slen]

make_dynamic_array_type(arg_type) ==
  AbiType(ARRAY_DYNAMIC, <<arg_type>>, None, None, None)

make_static_array_type(arg_type, array_len) ==
  AbiType(ARRAY_STATIC, <<arg_type>>, None, None, Some(array_len))

\* make_uint_type without its check of the size
make_uint_type_unchecked(type_size) ==
  Ok(AbiType(UINT, <<>>, Some(type_size), None, None))

make_uint_type(type_size) ==
  IF type_size % 8 # 0 \/ type_size < 8 \/ type_size > 512
  THEN Err("unsupported uint type bitSize")
  ELSE Ok(AbiType(UINT, <<>>, Some(type_size), None, None))

make_empty_fields_type(type_) == AbiType(type_, <<>>, None, None, None)

make_ufixed_type(type_size, type_precision) ==
  IF type_size % 8 # 0 \/ ~(type_size >= 8 /\ type_size <= 512)
  THEN Err("unsupported ufixed type bitSize")
  ELSE IF ~(type_precision >= 1 /\ type_precision <= 160)
  THEN Err("unsupported ufixed type precision")
  ELSE Ok(AbiType(UFIXED, <<>>, Some(type_size), Some(type_precision), None))

make_tuple_type(argument_types) ==
  IF Len(argument_types) >= U16_MAX
  THEN Err("tuple type child type number larger than maximum uint16 error")
  ELSE Ok(AbiType(TUPLE, argument_types, None, None, Some(Len(argument_types))))

----------------------------------------------------------------------------
(* abi_type.rs: AbiType::string *)

RECURSIVE string(_)
RECURSIVE strings_of(_)

\* the loop of the tuple arm: child_type.string()? for each child in order
strings_of(ts) ==
  IF Len(ts) = 0 THEN Ok(<<>>)
  ELSE LET h == string(ts[1])
       IN IF h.kind # "Ok" THEN h
          ELSE LET r == strings_of(Tail(ts))
               IN IF r.kind # "Ok" THEN r ELSE Ok(<<h.val>> \o r.val)

string(t) ==
  LET id == t.abi_type_id
      b == t.bit_size
      p == t.precision
      l == t.static_length
      empty == Len(t.child_types) = 0
  IN
  IF id = UINT /\ b # None /\ p = None /\ l = None /\ empty
  THEN Ok(S_uint \o fmt_num(b[1]))
  ELSE IF id = BYTE /\ b = None /\ p = None /\ l = None /\ empty
  THEN Ok(S_byte)
  ELSE IF id = UFIXED /\ b # None /\ p # None /\ l = None /\ empty
  THEN Ok(S_ufixed \o fmt_num(b[1]) \o fmt_num(p[1]))
  ELSE IF id = BOOL /\ b = None /\ p = None /\ l = None /\ empty
  THEN Ok(S_bool)
  ELSE IF id = ARRAY_STATIC /\ b = None /\ p = None /\ l # None /\ ~empty
  THEN LET c == string(t.child_types[1])
       IN IF c.kind # "Ok" THEN c
          ELSE Ok(c.val \o <<"[">> \o fmt_num(l[1]) \o <<"]">>)
  ELSE IF id = ARRAY_DYNAMIC /\ b = None /\ p = None /\ l = None /\ ~empty
  THEN LET c == string(t.child_types[1])
       IN IF c.kind # "Ok" THEN c ELSE Ok(c.val \o <<"[", "]">>)
  ELSE IF id = STRING_ID /\ b = None /\ p = None /\ l = None /\ empty
  THEN Ok(S_string)
  ELSE IF id = TUPLE /\ b = None /\ p = None /\ l = None
  THEN LET cs == strings_of(t.child_types)
       IN IF cs.kind # "Ok" THEN cs
          ELSE Ok(<<"(">> \o join(cs.val) \o <<")">>)
  ELSE Err("Invalid state: not serializable abi type state")

----------------------------------------------------------------------------
(* abi_type.rs: parse_tuple_content *)

\* the scan of str.chars().enumerate(): the stack of open parentheses and
\* the record of the outermost parenthesised segments; s is the character
\* sequence and i the 0-based character index
RECURSIVE ScanParens(_, _, _, _)
ScanParens(s, i, stack, rec) ==
  IF i >= Len(s) THEN
    IF Len(stack) # 0 THEN Err("unpaired parentheses") ELSE Ok(rec)
  ELSE IF s[i + 1] = "(" THEN ScanParens(s, i + 1, Append(stack, i), rec)
  ELSE IF s[i + 1] = ")" THEN
    IF Len(stack) = 0 THEN Err("unpaired parentheses")
    ELSE LET left_paren_index == stack[Len(stack)]
             popped == SubSeq(stack, 1, Len(stack) - 1)
         IN ScanParens(s, i + 1, popped,
              IF Len(popped) = 0
              THEN Append(rec, [left |-> left_paren_index, right |-> i])
              ELSE rec)
  ELSE ScanParens(s, i + 1, stack, rec)

\* the loop taking the records out first to last (iter() without rev()):
\* the offsets of the later records are those of the text before any removal
RECURSIVE RemoveSegments_first_to_last(_, _, _)
RemoveSegments_first_to_last(str_copied, rec, k) ==
  IF k = 0 THEN Ok(str_copied)
  ELSE LET paren_seg == rec[Len(rec) - k + 1]
           head == slice(str_copied, 0, paren_seg.left)
           rest == slice(str_copied, paren_seg.right + 1, Len(str_copied))
       IN IF head.kind # "Ok" THEN head
          ELSE IF rest.kind # "Ok" THEN rest
          ELSE RemoveSegments_first_to_last(head.val \o rest.val, rec, k - 1)

\* the loop over paren_segment_record.iter().rev(): k is the number of
\* records still to take out
RECURSIVE RemoveSegments(_, _, _)
RemoveSegments(str_copied, rec, k) ==
  IF k = 0 THEN Ok(str_copied)
  ELSE LET head == slice(str_copied, 0, rec[k].left)
           rest == slice(str_copied, rec[k].right + 1, Len(str_copied))
       IN IF head.kind # "Ok" THEN head
          ELSE IF rest.kind # "Ok" THEN rest
          ELSE RemoveSegments(head.val \o rest.val, rec, k - 1)

\* the loop that puts the parenthesis segments back in place of the empty
\* pieces; paren_seg_count is the index of the next record (0-based)
RECURSIVE PutBack(_, _, _, _, _)
PutBack(s, pieces, i, rec, paren_seg_count) ==
  IF i > Len(pieces) THEN Ok(<<>>)
  ELSE IF Len(pieces[i]) = 0 THEN
    IF paren_seg_count >= Len(rec) THEN Panic("index out of bounds")
    ELSE LET paren_seg == rec[paren_seg_count + 1]
             seg == slice(s, paren_seg.left, paren_seg.right + 1)
         IN IF seg.kind # "Ok" THEN seg
            ELSE LET r == PutBack(s, pieces, i + 1, rec, paren_seg_count + 1)
                 IN IF r.kind # "Ok" THEN r ELSE Ok(<<seg.val>> \o r.val)
  ELSE LET r == PutBack(s, pieces, i + 1, rec, paren_seg_count)
       IN IF r.kind # "Ok" THEN r ELSE Ok(<<pieces[i]>> \o r.val)

\* parse_tuple_content without its check for consecutive commas
parse_tuple_content_no_comma_pair_check(s) ==
  IF Len(s) = 0 THEN Ok(<<>>)
  ELSE IF ends_with(s, <<",">>) \/ starts_with(s, <<",">>)
  THEN Err("parsing error: tuple content should not start with comma")
  ELSE LET scan == ScanParens(chars(s), 0, <<>>, <<>>)
       IN IF scan.kind # "Ok" THEN scan
          ELSE LET str_copied == RemoveSegments(s, scan.val, Len(scan.val))
               IN IF str_copied.kind # "Ok" THEN str_copied
                  ELSE PutBack(s, split(str_copied.val), 1, scan.val, 0)

parse_tuple_content(s) ==
  IF Len(s) = 0 THEN Ok(<<>>)
  ELSE IF ends_with(s, <<",">>) \/ starts_with(s, <<",">>)
  THEN Err("parsing error: tuple content should not start with comma")
  ELSE IF contains(s, <<",", ",">>) THEN Err("no consecutive commas")
  ELSE LET scan == ScanParens(chars(s), 0, <<>>, <<>>)
       IN IF scan.kind # "Ok" THEN scan
          ELSE LET str_copied == RemoveSegments(s, scan.val, Len(scan.val))
               IN IF str_copied.kind # "Ok" THEN str_copied
                  ELSE PutBack(s, split(str_copied.val), 1, scan.val, 0)

----------------------------------------------------------------------------
(* abi_type.rs: AbiType::from_str *)

\* Regex::new(r"^\d{4}-\d{2}-\d{2}$"): is_some() of RE.captures(s)
static_array_re_is_match(s) ==
  /\ Len(s) = 10
  /\ \A i \in {1, 2, 3, 4, 6, 7, 9, 10} : s[i] \in Digits
  /\ s[5] = "-"
  /\ s[8] = "-"

\* caps.len() of that regex: the whole match only, it has no group
static_array_re_caps_len == 1

\* [1-9][\d]*
IsPositiveDecimal(d) == Len(d) >= 1 /\ AllDigits(d) /\ d[1] # "0"

\* Regex::new(r"^ufixed([1-9][\d]*)x([1-9][\d]*)$"): RE.captures(s), as
\* None or Some(<<group 1, group 2>>)
ufixed_re_captures(s) ==
  IF ~starts_with(s, S_ufixed) THEN None
  ELSE LET rest == strip_prefix(s, S_ufixed)
           xi == position(rest, "x")
       IN IF xi < 0 THEN None
          ELSE LET g1 == SubSeq(rest, 1, xi)
                   g2 == SubSeq(rest, xi + 2, Len(rest))
               IN IF IsPositiveDecimal(g1) /\ IsPositiveDecimal(g2)
                  THEN Some(<<g1, g2>>)
                  ELSE None

\* caps.len() of that regex: the whole match and two groups
ufixed_re_caps_len == 3

RECURSIVE from_str(_)
RECURSIVE parse_each(_)

\* the loop of the tuple branch: t.parse()? for each segment in order
parse_each(tuple_content) ==
  IF Len(tuple_content) = 0 THEN Ok(<<>>)
  ELSE LET ti == from_str(tuple_content[1])
       IN IF ti.kind # "Ok" THEN ti
          ELSE LET r == parse_each(Tail(tuple_content))
               IN IF r.kind # "Ok" THEN r ELSE Ok(<<ti.val>> \o r.val)

\* the dynamic array branch returning the parse of the element itself
from_str_dynamic_array_without_make(s) ==
  from_str(strip_suffix(s, <<"[", "]">>))

from_str_dynamic_array(s) ==
  LET array_arg_type == from_str(strip_suffix(s, <<"[", "]">>))
  IN IF array_arg_type.kind # "Ok" THEN array_arg_type
     ELSE Ok(make_dynamic_array_type(array_arg_type.val))

from_str_static_array(s) ==
  IF ~static_array_re_is_match(s) THEN Panic("called Option::unwrap() on a None value")
  ELSE IF static_array_re_caps_len # 3 THEN Err("ill formed uint type")
  ELSE Panic("caps[1]: no such group")

from_str_uint(s) ==
  LET type_size == parse_i32(strip_prefix(s, S_uint))
  IN IF type_size.kind # "Ok" THEN Err("Ill formed uint type")
     ELSE make_uint_type(type_size.val)

from_str_ufixed(s) ==
  LET caps == ufixed_re_captures(s)
  IN IF caps = None THEN Panic("called Option::unwrap() on a None value")
     ELSE IF ufixed_re_caps_len # 3 THEN Err("ill formed ufixed type")
     ELSE LET ufixed_size == parse_u32(caps[1][1])
              ufixed_precision == parse_u32(caps[1][2])
          IN IF ufixed_size.kind # "Ok" THEN Err("Error parsing ufixed size")
             ELSE IF ufixed_precision.kind # "Ok"
             THEN Err("Error parsing ufixed precision")
             ELSE make_ufixed_type(ufixed_size.val, ufixed_precision.val)

\* the tuple branch cutting the inner text at every comma, nested or not
from_str_tuple_split_every_comma(s) ==
  LET inner == SubSeq(s, 2, Len(s) - 1)
      tuple_content == IF Len(inner) = 0 THEN <<>> ELSE split(inner)
      tuple_types == parse_each(tuple_content)
  IN IF tuple_types.kind # "Ok" THEN tuple_types
     ELSE make_tuple_type(tuple_types.val)

from_str_tuple(s) ==
  LET inner == slice(s, 1, Len(s) - 1)
  IN IF inner.kind # "Ok" THEN inner
     ELSE LET tuple_content == parse_tuple_content(inner.val)
          IN IF tuple_content.kind # "Ok" THEN tuple_content
             ELSE LET tuple_types == parse_each(tuple_content.val)
                  IN IF tuple_types.kind # "Ok" THEN tuple_types
                     ELSE make_tuple_type(tuple_types.val)

from_str(s) ==
  IF ends_with(s, <<"[", "]">>) THEN from_str_dynamic_array(s)
  ELSE IF ends_with(s, <<"]">>) THEN from_str_static_array(s)
  ELSE IF starts_with(s, S_uint) THEN from_str_uint(s)
  ELSE IF s = S_byte THEN Ok(make_empty_fields_type(BYTE))
  ELSE IF starts_with(s, S_ufixed) THEN from_str_ufixed(s)
  ELSE IF s = S_bool THEN Ok(make_empty_fields_type(BOOL))
  ELSE IF s = S_address THEN Ok(make_empty_fields_type(ADDRESS))
  ELSE IF s = S_string THEN Ok(make_empty_fields_type(STRING_ID))
  ELSE IF Len(s) >= 2 /\ starts_with(s, <<"(">>) /\ ends_with(s, <<")">>)
  THEN from_str_tuple(s)
  ELSE Err("cannot convert string to ABI type")

----------------------------------------------------------------------------
(* interactions.rs *)

TransactionArgType_is_valid_str(s) ==
  s \in {S_Any, S_Payment, S_KeyRegistration, S_AssetConfig,
         S_AssetTransfer, S_AssetFreeze, S_AppCall}

ReferenceArgType_is_valid_str(s) ==
  s \in {S_AccountReferenceType, S_AssetReferenceType,
         S_ApplicationReferenceType}

AbiArg(type_, parsed) ==
  [name |-> None, type_ |-> type_, description |-> None, parsed |-> parsed]

AbiReturn(type_, parsed) ==
  [type_ |-> type_, description |-> None, parsed |-> parsed]

is_transaction_arg(self) == TransactionArgType_is_valid_str(self.type_)

is_reference_arg(self) == ReferenceArgType_is_valid_str(self.type_)

is_void(self) == self.type_ = S_void

\* the part shared by both get_type_object methods: the cached value if
\* there is one, else the parse of type_, stored on success;
\* res is the returned Result and self the receiver after the call
\* the shared part taking the cached value out of the cache when it
\* returns it (Option::take in place of the borrow and clone)
resolve_type_object_taking_the_cache(self) ==
  IF self.parsed # None
  THEN [res |-> Ok(self.parsed[1]), self |-> [self EXCEPT !.parsed = None]]
  ELSE LET type_obj == from_str(self.type_)
       IN IF type_obj.kind # "Ok" THEN [res |-> type_obj, self |-> self]
          ELSE [res |-> type_obj,
                self |-> [self EXCEPT !.parsed = Some(type_obj.val)]]

resolve_type_object(self) ==
  IF self.parsed # None THEN [res |-> Ok(self.parsed[1]), self |-> self]
  ELSE LET type_obj == from_str(self.type_)
       IN IF type_obj.kind # "Ok" THEN [res |-> type_obj, self |-> self]
          ELSE [res |-> type_obj,
                self |-> [self EXCEPT !.parsed = Some(type_obj.val)]]

\* get_type_object giving a reference arg the uint8 it is encoded as
AbiArg_get_type_object_reference_as_uint8(self) ==
  IF is_transaction_arg(self)
  THEN [res |-> Err("Invalid operation on transaction type"), self |-> self]
  ELSE IF is_reference_arg(self)
  THEN [res |-> make_uint_type(8),
        self |-> [self EXCEPT !.parsed = Some(make_uint_type(8).val)]]
  ELSE resolve_type_object(self)

AbiArg_get_type_object(self) ==
  IF is_transaction_arg(self)
  THEN [res |-> Err("Invalid operation on transaction type"), self |-> self]
  ELSE IF is_reference_arg(self)
  THEN [res |-> Err("Invalid operation on reference type"), self |-> self]
  ELSE resolve_type_object(self)

AbiReturn_get_type_object(self) ==
  IF is_void(self)
  THEN [res |-> Err("Invalid operation on void return type"), self |-> self]
  ELSE resolve_type_object(self)

\* the args' raw type strings, in order
RECURSIVE arg_types_of(_)
arg_types_of(args) ==
  IF Len(args) = 0 THEN <<>>
  ELSE <<args[1].type_>> \o arg_types_of(Tail(args))

get_signature(self) ==
  self.name \o <<"(">> \o join(arg_types_of(self.args)) \o <<")">>
    \o self.returns.type_

\* the for loop of parse_method_args: cur_pos runs over the byte offsets up
\* to str_method.len(), indexes the character vector and cuts the byte
\* string; cs is the vector str_method.chars().collect(), the same at every
\* iteration
RECURSIVE ScanArgs(_, _, _, _, _, _)
ScanArgs(s, cs, cur_pos, paren_cnt0, prev_pos, arg_types) ==
  IF cur_pos >= Len(s) THEN Err("method signature parentheses mismatch")
  ELSE IF cur_pos >= Len(cs) THEN Panic("index out of bounds")
  ELSE
    LET c == cs[cur_pos + 1]
        paren_cnt == IF c = "(" THEN paren_cnt0 + 1
                     ELSE IF c = ")" THEN paren_cnt0 - 1
                     ELSE paren_cnt0
    IN IF paren_cnt < 0 THEN Err("method signature parentheses mismatch")
       ELSE IF paren_cnt > 1
       THEN ScanArgs(s, cs, cur_pos + 1, paren_cnt, prev_pos, arg_types)
       ELSE
         LET cut == c = "," \/ paren_cnt = 0
             str_arg == IF cut THEN slice(s, prev_pos, cur_pos) ELSE Ok(<<>>)
         IN IF str_arg.kind # "Ok" THEN str_arg
            ELSE
              LET arg_types1 == IF cut THEN Append(arg_types, str_arg.val)
                                ELSE arg_types
                  prev_pos1 == IF cut THEN cur_pos + 1 ELSE prev_pos
              IN IF paren_cnt = 0
                 THEN Ok([arg_types |-> arg_types1, close_idx |-> cur_pos])
                 ELSE ScanArgs(s, cs, cur_pos + 1, paren_cnt, prev_pos1, arg_types1)

parse_method_args(str_method, start_idx) ==
  LET cs == chars(str_method)
  IN IF /\ start_idx < Len(str_method) - 1
        /\ start_idx + 1 < Len(cs)
        /\ cs[start_idx + 2] = ")"
     THEN Ok([arg_types |-> <<>>, close_idx |-> start_idx + 1])
     ELSE ScanArgs(str_method, cs, start_idx + 1, 1, start_idx + 1, <<>>)

\* the loop of from_signature over arg_types: push the arg, then fill its
\* cache unless it is a transaction or reference keyword
RECURSIVE build_args(_)
build_args(arg_types) ==
  IF Len(arg_types) = 0 THEN Ok(<<>>)
  ELSE
    LET arg_type == arg_types[1]
        arg == AbiArg(arg_type, None)
        got == IF TransactionArgType_is_valid_str(arg_type)
                  \/ ReferenceArgType_is_valid_str(arg_type)
               THEN [res |-> Ok("skipped"), self |-> arg]
               ELSE AbiArg_get_type_object(arg)
    IN IF got.res.kind # "Ok" THEN got.res
       ELSE LET r == build_args(Tail(arg_types))
            IN IF r.kind # "Ok" THEN r ELSE Ok(<<got.self>> \o r.val)

\* from_signature from the loop over arg_types on: the method, once every
\* arg is pushed and parsed
from_signature_method(name, args, return_type) ==
  IF args.kind # "Ok" THEN args
  ELSE Ok([name |-> name, description |-> None,
           args |-> args.val, returns |-> return_type])

\* from_signature after return_type.get_type_object()?, whose outcome is ret
from_signature_args(name, arg_types, ret) ==
  IF ret.res.kind # "Ok" THEN ret.res
  ELSE from_signature_method(name, build_args(arg_types), ret.self)

\* from_signature from the construction of return_type on; type_ is the
\* slice method_str[close_idx + 1..]
from_signature_return(name, arg_types, type_) ==
  IF type_.kind # "Ok" THEN type_
  ELSE from_signature_args(name, arg_types,
         IF is_void(AbiReturn(type_.val, None))
         THEN [res |-> Ok("skipped"), self |-> AbiReturn(type_.val, None)]
         ELSE AbiReturn_get_type_object(AbiReturn(type_.val, None)))

\* from_signature after parse_method_args(method_str, open_idx)?, whose
\* outcome is pm
from_signature_parsed(method_str, name, pm) ==
  IF pm.kind # "Ok" THEN pm
  ELSE from_signature_return(name, pm.val.arg_types,
         slice(method_str, pm.val.close_idx + 1, Len(method_str)))

\* from_signature from the slice name = &method_str[..open_idx] on
from_signature_name(method_str, open_idx, name) ==
  IF name.kind # "Ok" THEN name
  ELSE IF Len(name.val) = 0 THEN Err("method must have a non empty name")
  ELSE from_signature_parsed(method_str, name.val,
                             parse_method_args(method_str, open_idx))

\* from_signature after the search of the open parenthesis, whose outcome
\* is open_idx (negative: none found)
from_signature_open(method_str, open_idx) ==
  IF open_idx < 0 THEN Err("method signature is missing an open parenthesis")
  ELSE from_signature_name(method_str, open_idx, slice(method_str, 0, open_idx))

from_signature(method_str) ==
  from_signature_open(method_str, position(chars(method_str), "("))

\* get_tx_count counting the reference args too
get_tx_count_with_reference_args(self) ==
  1 + Cardinality({i \in 1..Len(self.args) :
                     is_transaction_arg(self.args[i]) \/ is_reference_arg(self.args[i])})

\* 1 + self.args.iter().filter(|a| a.is_transaction_arg()).count()
get_tx_count(self) ==
  1 + Cardinality({i \in 1..Len(self.args) : is_transaction_arg(self.args[i])})

\* the signature of the test of get_selector
S_add_signature ==
  <<"a", "d", "d", "(", "u", "i", "n", "t", "3", "2", ",",
    "u", "i", "n", "t", "3", "2", ")", "u", "i", "n", "t", "3", "2">>

\* the SHA-512/256 digest of S_add_signature, one two-digit hexadecimal
\* text per byte
Sha512_256_of_add_signature ==
  << <<"3", "e">>, <<"1", "e">>, <<"5", "2">>, <<"b", "d">>,
     <<"b", "2">>, <<"4", "2">>, <<"3", "e">>, <<"6", "8">>,
     <<"7", "b">>, <<"d", "a">>, <<"c", "c">>, <<"3", "a">>,
     <<"d", "c">>, <<"e", "9">>, <<"e", "4">>, <<"a", "9">>,
     <<"3", "b">>, <<"a", "a">>, <<"3", "0">>, <<"c", "4">>,
     <<"b", "0">>, <<"4", "c">>, <<"4", "3">>, <<"a", "1">>,
     <<"9", "2">>, <<"b", "2">>, <<"7", "0">>, <<"c", "e">>,
     <<"d", "9">>, <<"c", "2">>, <<"3", "d">>, <<"b", "8">> >>

\* sha2::Sha512_256::digest(data): 32 bytes. The digest of the sha2 crate is
\* not computed here: apart from the pinned vector, byte i of the digest of
\* data is the term "#i:data", so that different data or different
\* positions give different bytes (a collision-free digest).
Sha512_256_digest(data) ==
  IF data = S_add_signature THEN Sha512_256_of_add_signature
  ELSE [i \in 1..32 |-> <<"#">> \o fmt_num(i - 1) \o <<":">> \o data]

\* get_selector taking the last 4 bytes of the digest
get_selector_of_last_bytes(self) ==
  LET sig_bytes == get_signature(self)
      sig_hash == Sha512_256_digest(sig_bytes)
  IN Ok(SubSeq(sig_hash, 29, 32))

\* sig_hash[..4].try_into(): a slice of 4 bytes always converts to [u8; 4]
get_selector(self) ==
  LET sig_bytes == get_signature(self)
      sig_hash == Sha512_256_digest(sig_bytes)
  IN Ok(SubSeq(sig_hash, 1, 4))

----------------------------------------------------------------------------
(* lib.rs *)

\* the public make_tuple_type: the strings of the elements, joined and
\* wrapped in parentheses, are parsed
lib_make_tuple_type(argument_types) ==
  IF Len(argument_types) = 0
  THEN Err("tuple must contain at least one type")
  ELSE IF Len(argument_types) >= U16_MAX
  THEN Err("tuple type child type number larger than maximum uint16 error")
  ELSE LET strs == strings_of(argument_types)
       IN IF strs.kind # "Ok" THEN strs
          ELSE from_str(<<"(">> \o join(strs.val) \o <<")">>)

----------------------------------------------------------------------------
(* The inputs: leaves (well-formed and ill-formed type strings, keywords and
   the examples of the tests) closed MaxDepth times under the productions of
   the grammar and under the ways a string goes wrong *)

MaxDepth == 2

S_8 == <<"8">>

S_32 == <<"3", "2">>

S_uint8 == S_uint \o S_8

S_uint32 == S_uint \o S_32

S_int32 == <<"i", "n", "t">> \o S_32

S_add == <<"a", "d", "d">>

\* the character U+00E9, two bytes in UTF-8
S_e_acute == <<"C3", "A9">>

UintSuffixes ==
  {S_8, S_32, <<"7">>, <<"5", "1", "2">>, <<"5", "1", "3">>, <<"5", "2", "0">>,
   <<>>, <<"0">>, <<"0", "8">>, <<"+", "8">>, <<"-", "8">>}

UfixedSuffixes ==
  {<<"8", "x", "1">>, <<"1", "2", "8", "x", "1", "0">>, <<"8", "x", "0">>,
   <<"8", "x", "1", "6", "0">>, <<"8", "x", "1", "6", "1">>, <<>>, S_8,
   <<"8", "x", "1", "0", "y">>, <<"7", "x", "1">>, <<"x", "1">>,
   <<"0", "8", "x", "1">>}

Examples ==
  {<<"(">> \o S_uint32 \o <<",", "(">> \o S_uint32 \o <<",">> \o S_uint32 \o <<")", ")">>,
   S_uint32 \o <<",", "(">> \o S_uint32 \o <<",">> \o S_uint32 \o <<")", ",">> \o S_bool,
   S_uint32 \o <<",">> \o S_uint32,
   S_uint32 \o <<",", " ">> \o S_uint32,
   S_Payment \o <<",">> \o S_uint32,
   S_uint8 \o <<",">> \o S_bool}

Leaves ==
  {S_uint \o x : x \in UintSuffixes}
    \cup {S_ufixed \o x : x \in UfixedSuffixes}
    \cup {S_byte, S_bool, S_address, S_string, S_void, S_int32, <<>>,
          S_Payment, S_AssetReferenceType, S_e_acute, S_e_acute \o S_e_acute}
    \cup Examples

Compose(t) ==
  {t \o <<"[", "]">>,
   t \o <<"[", "2", "]">>,
   t \o <<"[", "x", "]">>,
   t \o <<"]">>,
   <<"(">> \o t \o <<")">>,
   <<"(">> \o t,
   t \o <<")">>,
   t \o <<",">> \o S_bool,
   S_uint8 \o <<",">> \o t,
   t \o <<",">>,
   <<",">> \o t,
   t \o <<",", ",">> \o S_bool,
   t \o <<"(">> \o S_bool \o <<")">>}

RECURSIVE Gen(_)
Gen(d) ==
  IF d = 0 THEN Leaves
  ELSE LET G == Gen(d - 1) IN G \cup UNION {Compose(t) : t \in G}

TypeInputs == Gen(MaxDepth)

\* for the splitter, also every string of at most MaxTokens tokens
MaxTokens == 5

Tokens == {S_bool, <<",">>, <<"(">>, <<")">>, <<"[", "]">>}

RECURSIVE TokenStrings(_)
TokenStrings(n) ==
  IF n = 0 THEN {<<>>}
  ELSE LET T == TokenStrings(n - 1)
       IN T \cup {t \o k : t \in T, k \in Tokens}

SplitInputs == TypeInputs \cup TokenStrings(MaxTokens)

Returns == {S_void, S_uint32, S_int32, <<>>, <<"(">> \o S_bool \o <<")">>}

Names == {S_add, S_e_acute \o <<"a">>, S_e_acute \o S_e_acute}

SigInputs ==
  LET A == Gen(MaxDepth - 1)
  IN {n \o <<"(">> \o a \o <<")">> \o r : n \in Names, a \in A, r \in Returns}
       \cup {<<"(">> \o a \o <<")">> \o S_void : a \in A}
       \cup {S_add \o a \o S_uint32 : a \in A}
       \cup {S_add \o <<"(">> \o a \o S_void : a \in A}

\* the calls of the constructors of abi_type.rs: the arguments
UintSizes == {8, 512, 0, 7, 520, -8}

UfixedSizes == {<<8, 1>>, <<128, 10>>, <<512, 160>>, <<8, 0>>, <<8, 161>>, <<7, 1>>}

ArrayLens == {0, 2, U16_MAX}

\* make_empty_fields_type is called with these four ids only
EmptyFieldsIds == {BYTE, BOOL, ADDRESS, STRING_ID}

\* the values the constructors return without children
ConstructedLeaves ==
  {make_uint_type(n).val : n \in {m \in UintSizes : make_uint_type(m).kind = "Ok"}}
    \cup {make_ufixed_type(a[1], a[2]).val :
            a \in {b \in UfixedSizes : make_ufixed_type(b[1], b[2]).kind = "Ok"}}
    \cup {make_empty_fields_type(id) : id \in EmptyFieldsIds}

\* the element lists given to make_tuple_type over the values V
TupleArgs(V) ==
  {<<>>} \cup {<<t>> : t \in V} \cup {<<t, make_empty_fields_type(BOOL)>> : t \in V}

\* the values of one more constructor call on the values V
ConstructedFrom(V) ==
  {make_dynamic_array_type(t) : t \in V}
    \cup {make_static_array_type(t, n) : t \in V, n \in ArrayLens}
    \cup {make_tuple_type(ts).val : ts \in TupleArgs(V)}

RECURSIVE Constructed(_)
Constructed(d) ==
  IF d = 0 THEN ConstructedLeaves
  ELSE LET C == Constructed(d - 1) IN C \cup ConstructedFrom(C)

\* the element lists given to the public make_tuple_type: the type values
\* a caller holds are those the parser returned
ElemTypes(d) ==
  {from_str(s).val : s \in {x \in Gen(d) : from_str(x).kind = "Ok"}}

ElemLists ==
  {<<>>}
    \cup {<<t>> : t \in ElemTypes(MaxDepth - 1)}
    \cup {<<t, u>> : t \in ElemTypes(MaxDepth - 1), u \in ElemTypes(0)}

\* the methods written as struct values, with empty caches
RawTypes ==
  {S_uint32, S_int32, S_Payment, S_AssetReferenceType, S_void,
   S_ufixed \o <<"8", "x", "1">>, S_ufixed,
   <<"(">> \o S_uint32 \o <<",">> \o S_bool \o <<")">>}

RawArgLists ==
  {<<>>} \cup {<<a>> : a \in RawTypes} \cup {<<a, b>> : a \in RawTypes, b \in RawTypes}

NewMethods ==
  {[name |-> S_add, description |-> None,
    args |-> [i \in 1..Len(as) |-> AbiArg(as[i], None)],
    returns |-> AbiReturn(r, None)] : as \in RawArgLists, r \in RawTypes}

----------------------------------------------------------------------------
(* The state machine: a caller that makes one call and follows it up *)

\* what the calls on a type leave alone, and what the calls on a method do
typeVars == <<ty, str, reparsed, segs, elems>>

methodVars == <<method, sig, resolved, asked, tx_count, selector>>

Init ==
  /\ pc = "idle"
  /\ text = <<>>
  /\ ty = NoCall
  /\ str = NoCall
  /\ reparsed = NoCall
  /\ segs = NoCall
  /\ method = NoCall
  /\ sig = <<>>
  /\ elems = <<>>
  /\ resolved = NoCall
  /\ asked = -1
  /\ tx_count = 0
  /\ selector = NoCall

\* s.parse::<AbiType>()
FromStr ==
  /\ pc = "idle"
  /\ \E s \in TypeInputs :
     /\ text' = s
     /\ ty' = from_str(s)
     /\ pc' = "from_str"
     /\ UNCHANGED <<str, reparsed, segs, elems, methodVars>>

\* a call of one of the constructors of abi_type.rs, on arguments that are
\* numbers or values constructed before
Construct ==
  /\ pc = "idle"
  /\ LET V == Constructed(MaxDepth - 1)
     IN \/ \E n \in UintSizes : ty' = make_uint_type(n)
        \/ \E a \in UfixedSizes : ty' = make_ufixed_type(a[1], a[2])
        \/ \E id \in EmptyFieldsIds : ty' = Ok(make_empty_fields_type(id))
        \/ \E t \in V : ty' = Ok(make_dynamic_array_type(t))
        \/ \E t \in V, n \in ArrayLens : ty' = Ok(make_static_array_type(t, n))
        \/ \E ts \in TupleArgs(V) : ty' = make_tuple_type(ts)
  /\ pc' = "constructed"
  /\ UNCHANGED <<text, str, reparsed, segs, elems, methodVars>>

\* the public make_tuple_type(ts) of lib.rs
MakeTupleType ==
  /\ pc = "idle"
  /\ \E ts \in ElemLists :
     /\ elems' = ts
     /\ ty' = lib_make_tuple_type(ts)
     /\ pc' = "make_tuple_type"
     /\ UNCHANGED <<text, str, reparsed, segs, methodVars>>

\* t.string() on the type a parse or a constructor returned
String ==
  /\ pc \in {"from_str", "constructed"}
  /\ ty.kind = "Ok"
  /\ str' = string(ty.val)
  /\ pc' = IF pc = "from_str" THEN "string" ELSE "constructed_string"
  /\ UNCHANGED <<text, ty, reparsed, segs, elems, methodVars>>

\* t.string()?.parse::<AbiType>()
FromStrOfString ==
  /\ pc = "string"
  /\ str.kind = "Ok"
  /\ reparsed' = from_str(str.val)
  /\ pc' = "reparsed"
  /\ UNCHANGED <<text, ty, str, segs, elems, methodVars>>

\* parse_tuple_content(s)
ParseTupleContent ==
  /\ pc = "idle"
  /\ \E s \in SplitInputs :
     /\ text' = s
     /\ segs' = parse_tuple_content(s)
     /\ pc' = "parse_tuple_content"
     /\ UNCHANGED <<ty, str, reparsed, elems, methodVars>>

\* AbiMethod::from_signature(s)
FromSignature ==
  /\ pc = "idle"
  /\ \E s \in SigInputs :
     /\ text' = s
     /\ method' = from_signature(s)
     /\ pc' = "from_signature"
     /\ UNCHANGED <<typeVars, sig, resolved, asked, tx_count, selector>>

\* AbiMethod { name, args, returns, .. } written out, every cache None
NewMethod ==
  /\ pc = "idle"
  /\ \E m \in NewMethods :
     /\ method' = Ok(m)
     /\ pc' = "new"
     /\ UNCHANGED <<text, typeVars, sig, resolved, asked, tx_count, selector>>

\* method.get_signature()
GetSignature ==
  /\ pc = "from_signature"
  /\ method.kind = "Ok"
  /\ sig' = get_signature(method.val)
  /\ pc' = "get_signature"
  /\ UNCHANGED <<text, typeVars, method, resolved, asked, tx_count, selector>>

\* the method is there: built, and not consumed by a later call
HasMethod ==
  /\ pc \in {"from_signature", "new", "get_type_object"}
  /\ method.kind = "Ok"

\* method.args[i].get_type_object(); asked is the 1-based position of the arg
ArgGetTypeObject ==
  /\ HasMethod
  /\ \E i \in 1..Len(method.val.args) :
       LET r == AbiArg_get_type_object(method.val.args[i])
       IN /\ resolved' = r.res
          /\ asked' = i
          /\ method' = Ok([method.val EXCEPT !.args[i] = r.self])
  /\ pc' = "get_type_object"
  /\ UNCHANGED <<text, typeVars, sig, tx_count, selector>>

\* method.returns.get_type_object(); asked is 0
ReturnGetTypeObject ==
  /\ HasMethod
  /\ LET r == AbiReturn_get_type_object(method.val.returns)
     IN /\ resolved' = r.res
        /\ asked' = 0
        /\ method' = Ok([method.val EXCEPT !.returns = r.self])
  /\ pc' = "get_type_object"
  /\ UNCHANGED <<text, typeVars, sig, tx_count, selector>>

\* method.get_tx_count()
GetTxCount ==
  /\ HasMethod
  /\ tx_count' = get_tx_count(method.val)
  /\ pc' = "get_tx_count"
  /\ UNCHANGED <<text, typeVars, method, sig, resolved, asked, selector>>

\* method.get_selector()
GetSelector ==
  /\ HasMethod
  /\ selector' = get_selector(method.val)
  /\ pc' = "get_selector"
  /\ UNCHANGED <<text, typeVars, method, sig, resolved, asked, tx_count>>

Next ==
  \/ FromStr
  \/ Construct
  \/ MakeTupleType
  \/ String
  \/ FromStrOfString
  \/ ParseTupleContent
  \/ FromSignature
  \/ NewMethod
  \/ GetSignature
  \/ ArgGetTypeObject
  \/ ReturnGetTypeObject
  \/ GetTxCount
  \/ GetSelector

Spec == Init /\ [][Next]_vars

----------------------------------------------------------------------------
(* Reference notions the properties are stated with: parenthesis depth and
   the cut of a text at its depth-0 commas, defined by counting *)

\* the number of '(' minus the number of ')' among the first j characters
Depth(s, j) ==
  Cardinality({i \in 1..j : s[i] = "("}) - Cardinality({i \in 1..j : s[i] = ")"})

Balanced(s) ==
  /\ \A j \in 1..Len(s) : Depth(s, j) >= 0
  /\ Depth(s, Len(s)) = 0

TopCommas(s) == {i \in 1..Len(s) : s[i] = "," /\ Depth(s, i) = 0}

\* the pieces of s between its depth-0 commas, in order
TopLevelSegments(s) ==
  LET C == TopCommas(s)
      n == Cardinality(C)
      cut(k) == IF k = 0 THEN 0
                ELSE IF k = n + 1 THEN Len(s) + 1
                ELSE CHOOSE c \in C : Cardinality({d \in C : d < c}) = k - 1
  IN [k \in 1..(n + 1) |-> SubSeq(s, cut(k - 1) + 1, cut(k) - 1)]

\* 1-based index of the ')' that closes the '(' at 1-based index open; 0 if none
MatchingClose(s, open) ==
  LET J == {j \in (open + 1)..Len(s) : Depth(s, j) = Depth(s, open - 1)}
  IN IF J = {} THEN 0 ELSE CHOOSE j \in J : \A k \in J : j <= k

IsKeyword(s) ==
  TransactionArgType_is_valid_str(s) \/ ReferenceArgType_is_valid_str(s)

----------------------------------------------------------------------------
(* C1..C10 *)

\* C1: serialize-after-parse round trip: whenever the parser accepts the
\* text s, string() of the parsed type succeeds and returns exactly s.
C1_SerializeAfterParse ==
  pc \in {"string", "reparsed"} => (str.kind = "Ok" /\ str.val = text)

\* C2: parse-after-serialize round trip: for a type t the parser produced,
\* t.string() succeeds and parsing its text gives back a type equal to t.
C2_ParseAfterSerialize ==
  /\ pc \in {"string", "reparsed"} => str.kind = "Ok"
  /\ pc = "reparsed" => (reparsed.kind = "Ok" /\ reparsed.val = ty.val)

\* C3: signature round trip: get_signature() of the method that
\* from_signature(s) returned is exactly s, and it is the name, "(", the args'
\* raw type strings separated by commas, ")" and the return's raw type string.
C3_SignatureRoundTrip ==
  pc = "get_signature" =>
    /\ sig = text
    /\ LET m == method.val
           n == Len(m.args)
           raw == [i \in 1..n |-> m.args[i].type_]
       IN sig = m.name \o <<"(">> \o join(raw) \o <<")">> \o m.returns.type_

\* C4: the parts of an accepted signature: the name is the text before the
\* first '(', the args are the depth-0 comma pieces of the argument list
\* (none for "()"), the return raw type is the text after the closing
\* parenthesis; a keyword arg has no cached type, every other arg and a
\* non-void return have the parse of their raw type cached.
C4_SignatureParts ==
  (pc \in {"from_signature", "get_signature"} /\ method.kind = "Ok") =>
    LET m == method.val
        open == position(text, "(") + 1
        close == MatchingClose(text, open)
        arg_text == SubSeq(text, open + 1, close - 1)
        pieces == IF arg_text = <<>> THEN <<>> ELSE TopLevelSegments(arg_text)
    IN /\ open >= 1
       /\ close > open
       /\ m.name = SubSeq(text, 1, open - 1)
       /\ Len(m.args) = Len(pieces)
       /\ \A i \in 1..Len(m.args) :
            /\ m.args[i].type_ = pieces[i]
            /\ IF IsKeyword(pieces[i]) THEN m.args[i].parsed = None
               ELSE /\ from_str(pieces[i]).kind = "Ok"
                    /\ m.args[i].parsed = Some(from_str(pieces[i]).val)
       /\ m.returns.type_ = SubSeq(text, close + 1, Len(text))
       /\ IF m.returns.type_ = S_void THEN m.returns.parsed = None
          ELSE /\ from_str(m.returns.type_).kind = "Ok"
               /\ m.returns.parsed = Some(from_str(m.returns.type_).val)

\* the strings C5 names
C5_Named ==
  {S_uint8 \o <<"[", "x", "]">>, S_uint8 \o <<"]">>, S_ufixed, S_ufixed \o S_8,
   S_ufixed \o <<"8", "x", "0">>, S_ufixed \o <<"8", "x", "1", "0", "y">>}

\* C5: the type parser is total: every call returns a type or an error value
\* and none panics; the named ill-formed array lengths and ufixed suffixes
\* give an error value.
C5_ParserTotal ==
  pc = "from_str" =>
    /\ ty.kind \in {"Ok", "Err"}
    /\ text \in C5_Named => ty.kind = "Err"

\* the malformed signatures C6 names: no '(' at all, an empty name, an
\* argument list that is never closed, a space after a comma of the argument
\* list, a non-keyword argument the type parser does not accept, a return
\* that is neither "void" nor accepted by the type parser
MalformedSignature(s) ==
  LET open == position(s, "(") + 1
      close == MatchingClose(s, open)
      arg_text == SubSeq(s, open + 1, close - 1)
      pieces == IF arg_text = <<>> THEN <<>> ELSE TopLevelSegments(arg_text)
      ret == SubSeq(s, close + 1, Len(s))
  IN \/ open = 0
     \/ open = 1
     \/ close = 0
     \/ /\ open > 1
        /\ close > open
        /\ \/ contains(arg_text, <<",", " ">>)
           \/ \E i \in 1..Len(pieces) :
                ~IsKeyword(pieces[i]) /\ from_str(pieces[i]).kind # "Ok"
           \/ ret # S_void /\ from_str(ret).kind # "Ok"

\* C6: from_signature returns an error value and never panics, for every
\* malformed signature.
C6_MalformedSignatureIsError ==
  pc = "from_signature" =>
    /\ method.kind \in {"Ok", "Err"}
    /\ MalformedSignature(text) => method.kind = "Err"

\* C7: static array rule: <elem>[<digits>] with an accepted <elem> and a
\* length of at most 65535 parses to the static array of parse(<elem>) with
\* that length; a greater length is an error.
C7_StaticArrayRule ==
  pc = "from_str" =>
    \A k \in 1..Len(text) :
      LET elem == SubSeq(text, 1, k - 1)
          digits == SubSeq(text, k + 1, Len(text) - 1)
      IN (/\ text[k] = "["
          /\ text[Len(text)] = "]"
          /\ Len(digits) >= 1
          /\ AllDigits(digits)
          /\ from_str(elem).kind = "Ok")
         => IF Exceeds(digits, <<"6", "5", "5", "3", "5">>)
            THEN ty.kind = "Err"
            ELSE /\ ty.kind = "Ok"
                 /\ ty.val = make_static_array_type(from_str(elem).val, NumVal(digits))

\* C8: on a non-empty text with balanced parentheses and no leading,
\* trailing or doubled comma the splitter returns the pieces between the
\* depth-0 commas, verbatim and in order.
C8_SplitterCutsAtTopLevelCommas ==
  (/\ pc = "parse_tuple_content"
   /\ text # <<>>
   /\ Balanced(text)
   /\ ~starts_with(text, <<",">>)
   /\ ~ends_with(text, <<",">>)
   /\ ~contains(text, <<",", ",">>))
  => /\ segs.kind = "Ok"
     /\ segs.val = TopLevelSegments(text)
     /\ join(segs.val) = text

\* C9: the splitter returns an error for a text with a leading comma, a
\* trailing comma, two consecutive commas or an unmatched parenthesis, and
\* the empty list for the empty text.
C9_SplitterRejects ==
  pc = "parse_tuple_content" =>
    /\ text = <<>> => (segs.kind = "Ok" /\ segs.val = <<>>)
    /\ (\/ starts_with(text, <<",">>)
        \/ ends_with(text, <<",">>)
        \/ contains(text, <<",", ",">>)
        \/ ~Balanced(text)) => segs.kind = "Err"

\* two consecutive commas right after a parenthesised span are rejected
C9_Witness ==
  /\ pc = "parse_tuple_content"
  /\ contains(text, <<")", ",", ",">>)
  /\ Balanced(text)
  /\ ~starts_with(text, <<",">>)
  /\ ~ends_with(text, <<",">>)
  /\ segs.kind = "Err"

S_nested_tuple ==
  <<"(">> \o S_uint32 \o <<",", "(">> \o S_uint32 \o <<",">> \o S_uint32 \o <<")", ")">>

\* C10: tuple rule: a text wrapped in '(' and ')' parses to the tuple of the
\* parses of the splitter's segments of the inner text, in order, one element
\* per depth-0 comma piece; it does not parse when the splitter or a segment
\* fails; "()" is the zero-element tuple and "(uint32,(uint32,uint32))" is a
\* 2-element tuple whose second element is a 2-element tuple.
C10_TupleRule ==
  (/\ pc = "from_str"
   /\ Len(text) >= 2
   /\ text[1] = "("
   /\ text[Len(text)] = ")")
  => LET inner == SubSeq(text, 2, Len(text) - 1)
         sp == parse_tuple_content(inner)
     IN /\ sp.kind # "Ok" => ty.kind = sp.kind
        /\ sp.kind = "Ok" =>
             LET n == Len(sp.val)
                 el == [i \in 1..n |-> from_str(sp.val[i])]
                 bad == {i \in 1..n : el[i].kind # "Ok"}
             IN IF bad = {}
                THEN /\ ty.kind = "Ok"
                     /\ ty.val.abi_type_id = TUPLE
                     /\ ty.val.child_types = [i \in 1..n |-> el[i].val]
                     /\ inner # <<>> => n = Cardinality(TopCommas(inner)) + 1
                ELSE ty.kind = el[CHOOSE i \in bad : \A j \in bad : i <= j].kind
        /\ text = <<"(", ")">> => (ty.kind = "Ok" /\ ty.val.child_types = <<>>)
        /\ text = S_nested_tuple =>
             /\ ty.kind = "Ok"
             /\ Len(ty.val.child_types) = 2
             /\ ty.val.child_types[2].abi_type_id = TUPLE
             /\ Len(ty.val.child_types[2].child_types) = 2

\* the nested tuple of the tests has been parsed
C10_Witness ==
  /\ pc = "from_str"
  /\ text = S_nested_tuple
  /\ ty.kind = "Ok"
  /\ ty.val.abi_type_id = TUPLE

----------------------------------------------------------------------------
(* C11..C20 *)

\* the text of a type value by its variant, children in order
RECURSIVE Format(_)
Format(t) ==
  LET id == t.abi_type_id
      kids == [i \in 1..Len(t.child_types) |-> Format(t.child_types[i])]
  IN CASE id = UINT -> S_uint \o fmt_num(t.bit_size[1])
       [] id = BYTE -> S_byte
       [] id = UFIXED ->
            S_ufixed \o fmt_num(t.bit_size[1]) \o <<"x">> \o fmt_num(t.precision[1])
       [] id = BOOL -> S_bool
       [] id = ADDRESS -> S_address
       [] id = STRING_ID -> S_string
       [] id = ARRAY_DYNAMIC -> kids[1] \o <<"[", "]">>
       [] id = ARRAY_STATIC ->
            kids[1] \o <<"[">> \o fmt_num(t.static_length[1]) \o <<"]">>
       [] id = TUPLE -> <<"(">> \o join(kids) \o <<")">>

\* C11: serializer forms: string() of a type value that the parser or a
\* constructor returned is Ok and its text is uint<bits>, byte,
\* ufixed<bits>x<precision>, bool, address, string, <elem>[],
\* <elem>[<length>] or (<elem0>,<elem1>,...) by the variant of the value,
\* the children serialized the same way in order.
C11_SerializerForms ==
  pc \in {"string", "constructed_string"} =>
    (str.kind = "Ok" /\ str.val = Format(ty.val))

\* bits of a uint or ufixed given as a digit string: in [8,512], multiple of 8
ValidBits(d) ==
  /\ Len(d) >= 1
  /\ AllDigits(d)
  /\ NumVal(d) >= 8
  /\ NumVal(d) <= 512
  /\ NumVal(d) % 8 = 0

\* C12: uint rule: a text "uint" + suffix that reaches the uint rule (it
\* does not end in ']') parses exactly when the suffix is digits only with
\* a value N in [8,512] divisible by 8, to the Uint of N bits; with every
\* other suffix the parse is an error.
C12_UintRule ==
  (/\ pc = "from_str"
   /\ starts_with(text, S_uint)
   /\ ~ends_with(text, <<"]">>))
  => LET suffix == strip_prefix(text, S_uint)
     IN IF ValidBits(suffix)
        THEN /\ ty.kind = "Ok"
             /\ ty.val = AbiType(UINT, <<>>, Some(NumVal(suffix)), None, None)
        ELSE ty.kind = "Err"

\* C13: ufixed rule: a text "ufixed" + M + "x" + P with digit strings M and
\* P that reaches the ufixed rule parses exactly when M is in [8,512] and
\* divisible by 8 and P is in [1,160], to the UFixed of M bits and precision
\* P; otherwise the parse is an error. "ufixed128x10" parses with bits 128
\* and precision 10; "ufixed8x0" and "ufixed8x161" are errors.
C13_UfixedRule ==
  (/\ pc = "from_str"
   /\ starts_with(text, S_ufixed)
   /\ ~ends_with(text, <<"]">>))
  => LET rest == strip_prefix(text, S_ufixed)
         xi == position(rest, "x")
         m == SubSeq(rest, 1, xi)
         p == SubSeq(rest, xi + 2, Len(rest))
     IN (xi >= 0 /\ Len(m) >= 1 /\ AllDigits(m) /\ Len(p) >= 1 /\ AllDigits(p))
        => IF ValidBits(m) /\ NumVal(p) >= 1 /\ NumVal(p) <= 160
           THEN /\ ty.kind = "Ok"
                /\ ty.val = AbiType(UFIXED, <<>>, Some(NumVal(m)), Some(NumVal(p)), None)
           ELSE ty.kind = "Err"

\* C14: dynamic array rule and its priority: a text ending in "[]" parses
\* to the dynamic array of the parse of the text before "[]", whatever else
\* the text looks like, and the parse fails exactly when that of the prefix
\* fails.
C14_DynamicArrayRule ==
  (pc = "from_str" /\ ends_with(text, <<"[", "]">>))
  => LET elem == from_str(SubSeq(text, 1, Len(text) - 2))
     IN IF elem.kind = "Ok"
        THEN /\ ty.kind = "Ok"
             /\ ty.val.abi_type_id = ARRAY_DYNAMIC
             /\ ty.val.child_types = <<elem.val>>
             /\ ty.val.bit_size = None
             /\ ty.val.precision = None
             /\ ty.val.static_length = None
             /\ text = S_uint8 \o <<"[", "]">>
                  => ty.val.child_types[1].abi_type_id = UINT
             /\ text = S_byte \o <<"[", "]", "[", "]">>
                  => ty.val.child_types[1].abi_type_id = ARRAY_DYNAMIC
             /\ text = <<"(">> \o S_uint8 \o <<",">> \o S_bool \o <<")", "[", "]">>
                  => ty.val.child_types[1].abi_type_id = TUPLE
        ELSE ty.kind = elem.kind

\* "(uint8,bool)[]" has been parsed to a dynamic array of a 2-element tuple
C14_Witness ==
  /\ pc = "from_str"
  /\ text = <<"(">> \o S_uint8 \o <<",">> \o S_bool \o <<")", "[", "]">>
  /\ ty.kind = "Ok"
  /\ ty.val.abi_type_id = ARRAY_DYNAMIC
  /\ Len(ty.val.child_types[1].child_types) = 2

\* the seven transaction-kind keywords
TransactionKeywords ==
  {S_Any, S_Payment, S_KeyRegistration, S_AssetConfig, S_AssetTransfer,
   S_AssetFreeze, S_AppCall}

\* C15: get_tx_count() is 1 plus the number of args whose raw type is one
\* of the seven transaction-kind keywords; reference-kind and value-typed
\* args add nothing, and a method without args has count 1.
C15_TxCount ==
  pc = "get_tx_count" =>
    LET args == method.val.args
        n == Cardinality({i \in 1..Len(args) : args[i].type_ \in TransactionKeywords})
    IN /\ tx_count = 1 + n
       /\ Len(args) = 0 => tx_count = 1
       /\ (\A i \in 1..Len(args) :
             \/ ReferenceArgType_is_valid_str(args[i].type_)
             \/ from_str(args[i].type_).kind = "Ok") => tx_count = 1

\* a method with a Payment arg and a uint32 arg has count 2
C15_Witness ==
  /\ pc = "get_tx_count"
  /\ Len(method.val.args) = 2
  /\ method.val.args[1].type_ = S_Payment
  /\ method.val.args[2].type_ = S_uint32
  /\ tx_count = 2

\* the arg or return a get_type_object call was made on, in method value m
Asked(m, k) == IF k = 0 THEN m.returns ELSE m.args[k]

\* a get_type_object call on a transaction or reference keyword arg, or on
\* a void return, is the step
RefusedCall ==
  /\ pc' = "get_type_object"
  /\ IF asked' = 0 THEN method.val.returns.type_ = S_void
     ELSE IsKeyword(method.val.args[asked'].type_)

\* C16: get_type_object on an arg whose raw type is a transaction or
\* reference keyword, or on a void return, returns an error and leaves the
\* instance as it was, its cache absent, whatever calls came before.
C16_NoTypeObjectForKeywordOrVoid ==
  [][RefusedCall =>
       /\ resolved'.kind = "Err"
       /\ method' = method
       /\ Asked(method'.val, asked').parsed = None]_vars

\* a method with a void return that from_signature built has refused the
\* type object of a keyword arg
C16_Witness ==
  /\ pc = "get_type_object"
  /\ text # <<>>
  /\ asked >= 1
  /\ IsKeyword(method.val.args[asked].type_)
  /\ method.val.returns.type_ = S_void
  /\ resolved.kind = "Err"
  /\ method.val.args[asked].parsed = None

\* the method value with other arg names and descriptions and no cache
WithoutCaches(m) ==
  [name |-> m.name, description |-> Some(<<"d">>),
   args |-> [i \in 1..Len(m.args) |->
               [name |-> Some(<<"n">>), type_ |-> m.args[i].type_,
                description |-> Some(<<"d">>), parsed |-> None]],
   returns |-> [type_ |-> m.returns.type_, description |-> Some(<<"d">>),
                parsed |-> None]]

\* C17: get_selector() succeeds and returns the first 4 bytes, in digest
\* order, of the SHA-512/256 digest of the signature text (name, "(", the
\* arg raw types joined by ",", ")", the return raw type); a method with the
\* same name and raw types but other arg names, descriptions and caches has
\* the same selector; for "add(uint32,uint32)uint32" it is 3e 1e 52 bd.
C17_Selector ==
  pc = "get_selector" =>
    LET m == method.val
        raw == [i \in 1..Len(m.args) |-> m.args[i].type_]
        signature == m.name \o <<"(">> \o join(raw) \o <<")">> \o m.returns.type_
        digest == Sha512_256_digest(signature)
    IN /\ selector.kind = "Ok"
       /\ selector.val = <<digest[1], digest[2], digest[3], digest[4]>>
       /\ get_selector(WithoutCaches(m)) = selector
       /\ signature = S_add_signature
            => selector.val = << <<"3", "e">>, <<"1", "e">>, <<"5", "2">>, <<"b", "d">> >>

\* the selector of "add(uint32,uint32)uint32", taken from a method whose
\* caches are filled
C17_Witness ==
  /\ pc = "get_selector"
  /\ get_signature(method.val) = S_add_signature
  /\ method.val.args[1].parsed # None
  /\ method.val.returns.parsed # None
  /\ selector = Ok(<< <<"3", "e">>, <<"1", "e">>, <<"5", "2">>, <<"b", "d">> >>)

\* C18: the public make_tuple_type(ts) returns, for a list ts of at most
\* 65534 type values, the empty list included, the tuple whose elements are
\* ts in order; for a longer list it returns an error.
C18_PublicMakeTupleType ==
  pc = "make_tuple_type" =>
    IF Len(elems) <= U16_MAX - 1
    THEN /\ ty.kind = "Ok"
         /\ ty.val.abi_type_id = TUPLE
         /\ ty.val.child_types = elems
    ELSE ty.kind = "Err"

\* the fields the tag of a type value allows, in the value and below it
RECURSIVE WellFormed(_)
WellFormed(t) ==
  LET id == t.abi_type_id
      kids == t.child_types
      bitsOk == /\ t.bit_size # None
                /\ t.bit_size[1] >= 8
                /\ t.bit_size[1] <= 512
                /\ t.bit_size[1] % 8 = 0
  IN /\ \A i \in 1..Len(kids) : WellFormed(kids[i])
     /\ CASE id = UINT ->
               bitsOk /\ t.precision = None /\ t.static_length = None /\ kids = <<>>
          [] id = UFIXED ->
               /\ bitsOk
               /\ t.precision # None
               /\ t.precision[1] >= 1
               /\ t.precision[1] <= 160
               /\ t.static_length = None
               /\ kids = <<>>
          [] id \in {BYTE, BOOL, ADDRESS, STRING_ID} ->
               /\ t.bit_size = None
               /\ t.precision = None
               /\ t.static_length = None
               /\ kids = <<>>
          [] id = ARRAY_DYNAMIC ->
               /\ Len(kids) = 1
               /\ t.bit_size = None
               /\ t.precision = None
               /\ t.static_length = None
          [] id = ARRAY_STATIC ->
               /\ Len(kids) = 1
               /\ t.bit_size = None
               /\ t.precision = None
               /\ t.static_length # None
          [] id = TUPLE ->
               /\ t.bit_size = None
               /\ t.precision = None
               /\ t.static_length = Some(Len(kids))
          [] OTHER -> FALSE

\* C19: type well-formedness: every type value the parser, a constructor or
\* the public make_tuple_type returned, and every value nested in it, has
\* exactly the fields its tag allows, with bits in [8,512] divisible by 8,
\* precision in [1,160] and a tuple length equal to the number of children.
C19_WellFormedTypes ==
  /\ ty.kind = "Ok" => WellFormed(ty.val)
  /\ reparsed.kind = "Ok" => WellFormed(reparsed.val)
  /\ (pc = "get_type_object" /\ resolved.kind = "Ok") => WellFormed(resolved.val)
  /\ method.kind = "Ok" =>
       /\ \A i \in 1..Len(method.val.args) :
            method.val.args[i].parsed # None
              => WellFormed(method.val.args[i].parsed[1])
       /\ method.val.returns.parsed # None
            => WellFormed(method.val.returns.parsed[1])

\* a constructor has returned a static array of a 2-element tuple
C19_Witness ==
  /\ pc = "constructed"
  /\ ty.kind = "Ok"
  /\ ty.val.abi_type_id = ARRAY_STATIC
  /\ ty.val.child_types[1].abi_type_id = TUPLE
  /\ Len(ty.val.child_types[1].child_types) = 2

\* the cache of an arg or return is absent or holds the parse of its raw type
MemoOf(x) ==
  x.parsed # None =>
    (from_str(x.type_).kind = "Ok" /\ x.parsed = Some(from_str(x.type_).val))

\* every cache of the method is absent or the parse of the raw type
CachesAreMemos ==
  method.kind = "Ok" =>
    /\ \A i \in 1..Len(method.val.args) : MemoOf(method.val.args[i])
    /\ MemoOf(method.val.returns)

\* what a get_type_object step may do to the arg or return it is made on
MemoStep ==
  pc' = "get_type_object" =>
    LET before == Asked(method.val, asked')
        after == Asked(method'.val, asked')
    IN /\ before.parsed # None => method' = method
       /\ resolved'.kind = "Ok" =>
            /\ from_str(before.type_).kind = "Ok"
            /\ resolved'.val = from_str(before.type_).val
       /\ resolved'.kind # "Ok" => method' = method
       /\ after.type_ = before.type_
       /\ \A k \in 0..Len(method.val.args) :
            k # asked' => Asked(method'.val, k) = Asked(method.val, k)

\* C20: write-once memo: for the args and the return of a method that
\* from_signature built or that started with empty caches, after every call
\* the cache is absent or the parse of the raw type; a get_type_object call
\* does not change a cache that is present, returns the parse of the raw
\* type when it succeeds and leaves the cache as it was when it fails.
C20_WriteOnceMemo ==
  []CachesAreMemos /\ [][MemoStep]_vars

\* a method written with empty caches has had the cache of an arg filled by
\* a get_type_object call
C20_Witness ==
  /\ pc = "get_type_object"
  /\ text = <<>>
  /\ asked >= 1
  /\ resolved.kind = "Ok"
  /\ method.val.args[asked].parsed = Some(resolved.val)
  /\ method.val.returns.parsed = None

----------------------------------------------------------------------------
(* C21..C22 *)

\* the argument text of the signature s as parse_method_args delimits it:
\* the bytes between the open parenthesis at open_idx and the closing
\* parenthesis it returned
ArgumentText(s, open_idx, pm) == slice(s, open_idx + 1, pm.val.close_idx)

\* C21: the two top-level splitters agree: for every signature whose
\* argument list parse_method_args accepts with a non-empty argument text A,
\* parse_tuple_content(A) succeeds with the same ordered list of segments;
\* and whenever parse_tuple_content fails on such a non-empty A,
\* from_signature fails on the signature.
C21_SplittersAgree ==
  pc = "from_signature" =>
    LET open_idx == position(chars(text), "(")
    IN open_idx >= 0 =>
         LET pm == parse_method_args(text, open_idx)
         IN pm.kind = "Ok" =>
              LET A == ArgumentText(text, open_idx, pm)
              IN (A.kind = "Ok" /\ Len(A.val) > 0) =>
                   /\ parse_tuple_content(A.val).kind = "Ok"
                   /\ parse_tuple_content(A.val).val = pm.val.arg_types
                   /\ parse_tuple_content(A.val).kind # "Ok" => method.kind # "Ok"

\* a text of one-byte characters
IsAscii(s) == \A i \in 1..Len(s) : s[i] \notin {"C3", "A9"}

\* the text passes the comma checks of the splitter
PassesCommaChecks(s) ==
  /\ ~starts_with(s, <<",">>)
  /\ ~ends_with(s, <<",">>)
  /\ ~contains(s, <<",", ",">>)

\* the number of empty pieces of a list of pieces
EmptyPieces(pieces) == Cardinality({i \in 1..Len(pieces) : pieces[i] = <<>>})

\* C22: splitter placeholder safety: for a text of one-byte characters that
\* passes the comma checks and the balance check of parse_tuple_content, the
\* text without the recorded outermost parenthesised spans, split on ',',
\* has at most as many empty pieces as there are recorded spans; the call
\* does not panic and every segment it returns is non-empty.
C22_PlaceholderSafety ==
  (/\ pc = "parse_tuple_content"
   /\ Len(text) > 0
   /\ IsAscii(text)
   /\ PassesCommaChecks(text)
   /\ Balanced(text))
  => LET scan == ScanParens(chars(text), 0, <<>>, <<>>)
         str_copied == RemoveSegments(text, scan.val, Len(scan.val))
     IN /\ scan.kind = "Ok"
        /\ str_copied.kind = "Ok"
        /\ EmptyPieces(split(str_copied.val)) <= Len(scan.val)
        /\ segs.kind = "Ok"
        /\ \A i \in 1..Len(segs.val) : Len(segs.val[i]) > 0

\* a piece made of two adjoining spans: two spans recorded, one placeholder
C22_Witness ==
  /\ pc = "parse_tuple_content"
  /\ text = <<"(", ")", "(", ")">>
  /\ Len(ScanParens(chars(text), 0, <<>>, <<>>).val) = 2
  /\ EmptyPieces(split(RemoveSegments(text, ScanParens(chars(text), 0, <<>>, <<>>).val, 2).val)) = 1
  /\ segs.kind = "Ok"
  /\ Len(segs.val) = 1

====
